---------------------------- MODULE Spec2Model ----------------------------
(***************************************************************************)
(* A model of app.py, the Streamlit financial report analyzer:             *)
(*   - calculate_financial_ratios, as a function of one extracted table;   *)
(*   - the two prompt builders and call_gemini_api;                        *)
(*   - generate_pdf_report, as the sequence of cells it emits and the      *)
(*     file it writes;                                                     *)
(*   - main(), one script run per browser session, the sessions sharing    *)
(*     the process's working directory.                                    *)
(*                                                                         *)
(* Numbers.  Cells are strings; pd.to_numeric is modelled on the numerals  *)
(* listed in NumeralValue (integers), every other string coercing to NaN.  *)
(* A float is modelled by its exact rational value, or by inf, -inf, nan   *)
(* as numpy's scalar division produces them; round(x, 2) is modelled as    *)
(* rounding the exact quotient to the nearest hundredth, ties to even.     *)
(*                                                                         *)
(* Outside the model: the layout and the character encoding done by the    *)
(* FPDF library, the charts' content, and Streamlit's rerun of the script  *)
(* on a later widget event (each session makes one run).                   *)
(***************************************************************************)
EXTENDS Integers, Sequences, FiniteSets, TLC

VARIABLES
    \* ---- main(), per session
    connected,   \* the sessions that have the app open
    pc,          \* where each session's script run is
    text,        \* main: text
    dfs,         \* main: dfs
    idx,         \* main: how many tables the for loop has processed
    insights,    \* main: insights
    ratios,      \* main: ratios (meaningful only when bound)
    bound,       \* main: whether the local name ratios has been assigned
    analytics,   \* main: analytics
    sent,        \* prompts posted to the remote model, in order
    failures,    \* the kinds of remote failure each run has met, in order
    errors,      \* st.error messages shown, in order
    shown,       \* ratio sets shown by st.write(ratios), in order
    charts,      \* how many charts st.plotly_chart has drawn
    exception,   \* the uncaught exception that ended the run, or "none"
    download,    \* the bytes handed to st.download_button
    fs,          \* the working directory: content of financial_report.pdf
    \* ---- calculate_financial_ratios on its own
    rdf,         \* the table given
    rcalled,     \* whether the call has been made
    rout,        \* what the call returned and reported
    \* ---- generate_pdf_report on its own
    gin,         \* the arguments (insights, ratios, analytics)
    gcalled,
    gdoc,        \* the cells emitted
    \* ---- the prompt builders on their own
    ptext,       \* the report text
    pprompts     \* the prompts built, in order

pipelineVars == <<connected, pc, text, dfs, idx, insights, ratios, bound,
                  analytics, sent, failures, errors, shown, charts,
                  exception,
                  download, fs>>
ratioVars    == <<rdf, rcalled, rout>>
reportVars   == <<gin, gcalled, gdoc>>
promptVars   == <<ptext, pprompts>>
vars == <<pipelineVars, ratioVars, reportVars, promptVars>>

(***************************************************************************)
(* Bounds of the model.                                                    *)
(***************************************************************************)
MaxRows == 2        \* data rows of a table given to the ratio calculator
MaxTables == 2      \* tables extracted from one upload
MaxLineChars == 3   \* characters of an insights / analytics string
Margin == 2         \* text lengths explored on each side of the budget

Min(a, b) == IF a < b THEN a ELSE b
Abs(a) == IF a < 0 THEN -a ELSE a

(***************************************************************************)
(* Extracted tables: table[0] is the header, table[1:] the data rows, all  *)
(* of the same width (pdfplumber returns rectangular tables).              *)
(***************************************************************************)
NoneCell == "<None>"    \* pdfplumber's None for an empty cell

RowSamples ==
    { <<"FY23",  "1000", "400",   "2000", "300", "audited">>,
      <<"FY22",  "5",    "5",     "10",   "2",   NoneCell>>,
      <<"FY21",  "9",    "1",     "0",    "3",   "restated">>,
      <<"Total", "n/a",  "1,000", "7",    "-2",  NoneCell>>,
      <<"Nil",   "0",    "0",     "0",    "0",   "0">>,
      <<"Q1",    "3",    "1",     "3",    "2",   "1">>,
      <<"Q2",    "-4",   "2",     "6",    NoneCell, "n/a">>,
      <<"Q3",    "7",    "3",     "-3",   "-1",  "7">> }

HeaderSample == <<"Year", "Assets", "Liabilities", "Revenue", "Profit", "Note">>

ColCounts == {1, 3, 4, 5, 6}

Prefix(row, n) == SubSeq(row, 1, n)

\* pd.DataFrame(table[1:], columns=table[0])
DataFrame(header, rows) == [columns |-> header, rows |-> rows]

NCols(df) == Len(df.columns)

RECURSIVE SeqsUpTo(_, _)
\* the nonempty sequences over S of length at most n
SeqsUpTo(S, n) ==
    IF n = 0 THEN {}
    ELSE LET shorter == SeqsUpTo(S, n - 1)
         IN  {<<x>> : x \in S} \cup shorter
                \cup {Append(q, x) : q \in shorter, x \in S}

Tables ==
    { DataFrame(Prefix(HeaderSample, n), [i \in 1..Len(rows) |-> Prefix(rows[i], n)]) :
        n \in ColCounts, rows \in SeqsUpTo(RowSamples, MaxRows) }

(***************************************************************************)
(* pd.to_numeric(errors='coerce') and Series.sum().                        *)
(***************************************************************************)
NumeralValue ==
    [s \in {"-4", "-3", "-2", "-1", "0", "1", "2", "3", "5", "6", "7", "9",
            "10", "300", "400", "1000", "2000"} |->
        CASE s = "-4" -> -4 [] s = "-3" -> -3 [] s = "-2" -> -2 [] s = "-1" -> -1
          [] s = "0" -> 0 [] s = "1" -> 1 [] s = "2" -> 2 [] s = "3" -> 3
          [] s = "5" -> 5 [] s = "6" -> 6 [] s = "7" -> 7 [] s = "9" -> 9
          [] s = "10" -> 10 [] s = "300" -> 300 [] s = "400" -> 400
          [] s = "1000" -> 1000 [] s = "2000" -> 2000]

NaN == [nan |-> TRUE, v |-> 0]
Num(n) == [nan |-> FALSE, v |-> n]

\* pd.to_numeric(cell, errors='coerce'): the number, or NaN
ToNumeric(cell) ==
    IF cell \in DOMAIN NumeralValue THEN Num(NumeralValue[cell]) ELSE NaN

\* df.apply(pd.to_numeric, errors='coerce')
NumericDf(df) ==
    [columns |-> df.columns,
     rows |-> [i \in 1..Len(df.rows) |->
                 [j \in 1..Len(df.rows[i]) |-> ToNumeric(df.rows[i][j])]]]

\* numeric_df.iloc[:, j], j counted from 0; the caller checks j < NCols
ILoc(ndf, j) == [i \in 1..Len(ndf.rows) |-> ndf.rows[i][j + 1]]

RECURSIVE SeriesSum(_)
\* Series.sum(): skipna=True, NaN entries are left out; an empty sum is 0
SeriesSum(series) ==
    IF series = <<>> THEN 0
    ELSE (IF series[1].nan THEN 0 ELSE series[1].v) + SeriesSum(Tail(series))

(***************************************************************************)
(* Floats: k = "fin" with the exact value n/d (d > 0), or inf, -inf, nan.  *)
(***************************************************************************)
Fin(n, d) == [k |-> "fin", n |-> n, d |-> d]
NonFin(k) == [k |-> k, n |-> 0, d |-> 1]

\* a / b on numpy scalars: division by zero gives inf, -inf or nan
TrueDivide(a, b) ==
    IF b = 0 THEN (IF a > 0 THEN NonFin("inf")
                   ELSE IF a < 0 THEN NonFin("-inf") ELSE NonFin("nan"))
    ELSE IF b > 0 THEN Fin(a, b) ELSE Fin(-a, -b)

\* x * 100
Times100(x) == IF x.k = "fin" THEN Fin(100 * x.n, x.d) ELSE x

\* a variant that cuts the digits after the second place instead of rounding
Round2Truncating(x) ==
    IF x.k # "fin" THEN [k |-> x.k, h |-> 0]
    ELSE [k |-> "fin", h |-> (100 * x.n) \div x.d]

\* round(x, 2): the value in hundredths h (h/100), nearest, ties to even
Round2(x) ==
    IF x.k # "fin" THEN [k |-> x.k, h |-> 0]
    ELSE LET num == 100 * x.n
             f   == num \div x.d
             r   == num % x.d
         IN  [k |-> "fin",
              h |-> IF 2 * r < x.d THEN f
                    ELSE IF 2 * r > x.d THEN f + 1
                    ELSE IF f % 2 = 0 THEN f ELSE f + 1]

(***************************************************************************)
(* calculate_financial_ratios(df)                                          *)
(***************************************************************************)
AssetsCol == 1
LiabilitiesCol == 2
RevenueCol == 3
ProfitCol == 4

DebtToEquity == "Debt-to-Equity Ratio"
ProfitMargin == "Profit Margin"
ReturnOnAssets == "Return on Assets (ROA)"

NoLocals == [total_assets |-> 0, total_liabilities |-> 0, revenue |-> 0, profit |-> 0]

\* the three assignments of lines 73-75, in order
RatioEntries(total_assets, total_liabilities, revenue, profit) ==
    << [name |-> DebtToEquity,
        value |-> Round2(TrueDivide(total_liabilities, total_assets - total_liabilities))],
       [name |-> ProfitMargin,
        value |-> Round2(Times100(TrueDivide(profit, revenue)))],
       [name |-> ReturnOnAssets,
        value |-> Round2(Times100(TrueDivide(profit, total_assets)))] >>

\* a variant without errors='coerce': pd.to_numeric raises on the first cell
\* it cannot parse, and the except clause ends the computation
CalculateFinancialRatiosStrict(df) ==
    IF \/ NCols(df) <= ProfitCol
       \/ \E i \in 1..Len(df.rows), j \in 1..NCols(df) : df.rows[i][j] \notin DOMAIN NumeralValue
    THEN [ratios |-> <<>>,
          error  |-> "Error calculating ratios: Unable to parse string",
          locals |-> NoLocals]
    ELSE LET ndf == NumericDf(df)
             total_assets      == SeriesSum(ILoc(ndf, AssetsCol))
             total_liabilities == SeriesSum(ILoc(ndf, LiabilitiesCol))
             revenue           == SeriesSum(ILoc(ndf, RevenueCol))
             profit            == SeriesSum(ILoc(ndf, ProfitCol))
         IN  [ratios |-> RatioEntries(total_assets, total_liabilities, revenue, profit),
              error  |-> "none",
              locals |-> [total_assets |-> total_assets,
                          total_liabilities |-> total_liabilities,
                          revenue |-> revenue, profit |-> profit]]

\* What the call returns (ratios), the st.error it shows (error, "none" if
\* none) and its locals.  An iloc past the last column raises IndexError
\* before any ratio is assigned; the except clause reports it and the empty
\* dict is returned.
CalculateFinancialRatios(df) ==
    LET numeric_df == NumericDf(df)
    IN  IF NCols(df) <= ProfitCol
        THEN [ratios |-> <<>>,
              error  |-> "Error calculating ratios: single positional indexer is out-of-bounds",
              locals |-> NoLocals]
        ELSE LET total_assets      == SeriesSum(ILoc(numeric_df, AssetsCol))
                 total_liabilities == SeriesSum(ILoc(numeric_df, LiabilitiesCol))
                 revenue           == SeriesSum(ILoc(numeric_df, RevenueCol))
                 profit            == SeriesSum(ILoc(numeric_df, ProfitCol))
             IN  [ratios |-> RatioEntries(total_assets, total_liabilities, revenue, profit),
                  error  |-> "none",
                  locals |-> [total_assets |-> total_assets,
                              total_liabilities |-> total_liabilities,
                              revenue |-> revenue, profit |-> profit]]

NoResult == [ratios |-> <<>>, error |-> "none", locals |-> NoLocals]

(***************************************************************************)
(* Strings are sequences of characters; a literal of the source that is    *)
(* never split is kept as one element.                                     *)
(***************************************************************************)
NL == "\n"

TruncLimit == 4000

\* a variant whose slice keeps one character too many
SliceOneMore(str, n) == SubSeq(str, 1, Min(Len(str), n + 1))

\* text[:n]
Slice(str, n) == SubSeq(str, 1, Min(Len(str), n))

InsightsInstruction ==
    "Extract and summarize 5 key financial insights from the following annual report:\n"
AnalyticsInstruction ==
    "Analyze this financial report and provide 5 detailed financial analytics insights:\n"

\* the f-string of line 60: the instruction, then text[:4000]
InsightsPrompt(t) == [instruction |-> InsightsInstruction, body |-> Slice(t, TruncLimit)]

\* the f-string of line 100
AnalyticsPrompt(t) == [instruction |-> AnalyticsInstruction, body |-> Slice(t, TruncLimit)]

(***************************************************************************)
(* call_gemini_api: what requests.post does is the environment's choice.   *)
(***************************************************************************)
ErrorFetching == <<"Error fetching insights.">>

ModelTexts == { <<"g", NL, "h">> }

\* requests.post raised (no connection, DNS, TLS, ...)
PostRaises == [post |-> "raises", isJson |-> FALSE, json |-> [none |-> TRUE]]
\* a response whose body is not JSON
NotJsonBody == [post |-> "returns", isJson |-> FALSE, json |-> [none |-> TRUE]]
JsonBody(j) == [post |-> "returns", isJson |-> TRUE, json |-> j]

Responses ==
    { PostRaises, NotJsonBody,
      JsonBody([error |-> [code |-> 400, status |-> "INVALID_ARGUMENT"]]),
      JsonBody([candidates |-> <<>>]),
      JsonBody([candidates |-> << [finishReason |-> "SAFETY"] >>]),
      JsonBody([candidates |-> << [content |-> [role |-> "model"]] >>]),
      JsonBody([candidates |-> << [content |-> [parts |-> <<>>]] >>]) }
    \cup { JsonBody([candidates |-> << [content |-> [parts |-> << [text |-> t] >>]] >>]) :
             t \in ModelTexts }

\* response_json["candidates"][0]["content"]["parts"][0]["text"] can be read
HasTextPath(j) ==
    /\ Len(j.candidates) >= 1
    /\ "content" \in DOMAIN j.candidates[1]
    /\ "parts" \in DOMAIN j.candidates[1].content
    /\ Len(j.candidates[1].content.parts) >= 1
    /\ "text" \in DOMAIN j.candidates[1].content.parts[1]

ApiError == "API Error: {response_json}"
ParseError == "Failed to parse API response: {e}"

\* raised: the exception that leaves the function ("none" when it returns);
\* result: the string returned; error: the st.error shown ("none" if none).
\* The POST is made before the try block, so what it raises is not caught.
CallGeminiApi(response) ==
    IF response.post = "raises"
    THEN [raised |-> "ConnectionError", result |-> <<>>, error |-> "none"]
    ELSE IF ~response.isJson
    THEN [raised |-> "none", result |-> ErrorFetching, error |-> ParseError]
    ELSE IF "candidates" \notin DOMAIN response.json
    THEN [raised |-> "none", result |-> ErrorFetching, error |-> ApiError]
    ELSE IF ~HasTextPath(response.json)
    THEN [raised |-> "none", result |-> ErrorFetching, error |-> ParseError]
    ELSE [raised |-> "none",
          result |-> response.json.candidates[1].content.parts[1].text,
          error |-> "none"]

\* a response that is one of the remote failures
IsFailure(response) ==
    \/ response.post = "raises"
    \/ ~response.isJson
    \/ "candidates" \notin DOMAIN response.json
    \/ ~HasTextPath(response.json)

(***************************************************************************)
(* generate_pdf_report: the cells emitted, in order.                       *)
(***************************************************************************)
RECURSIVE Split(_, _)
\* str.split(sep): the pieces between separators, empty pieces included
Split(str, sep) ==
    IF \A i \in 1..Len(str) : str[i] # sep THEN <<str>>
    ELSE LET i == CHOOSE k \in 1..Len(str) :
                     str[k] = sep /\ \A m \in 1..(k - 1) : str[m] # sep
         IN  <<SubSeq(str, 1, i - 1)>> \o Split(SubSeq(str, i + 1, Len(str)), sep)

\* str(x) of a float rounded to 2 places, as characters: 0.67, 15.0, inf
FormatValue(v) ==
    IF v.k # "fin" THEN <<v.k>>
    ELSE LET a    == Abs(v.h)
             frac == a % 100
         IN  (IF v.h < 0 THEN <<"-">> ELSE <<>>)
             \o <<ToString(a \div 100), ".">>
             \o (IF frac % 10 = 0 THEN <<ToString(frac \div 10)>>
                 ELSE IF frac < 10 THEN <<"0", ToString(frac)>>
                 ELSE <<ToString(frac)>>)

Cell(txt) == [op |-> "cell", txt |-> txt, h |-> 10]
Ln(h) == [op |-> "ln", txt |-> <<>>, h |-> h]

Title == <<"Financial Report Summary">>
InsightsHeading == <<"Key Insights:">>
RatiosHeading == <<"Financial Ratios:">>
AnalyticsHeading == <<"Advanced Analytics:">>

\* a variant that splits as str.splitlines() does: a final line break opens
\* no further piece, and the empty string has none
BulletsSplitlines(str) ==
    LET all    == Split(str, NL)
        pieces == IF all[Len(all)] = <<>> THEN SubSeq(all, 1, Len(all) - 1) ELSE all
    IN  [i \in 1..Len(pieces) |-> Cell(<<"- ">> \o pieces[i])]

\* for piece in str.split('\n'): pdf.cell(0, 10, f"- {piece}", ln=True)
Bullets(str) ==
    LET pieces == Split(str, NL)
    IN  [i \in 1..Len(pieces) |-> Cell(<<"- ">> \o pieces[i])]

\* for key, value in ratios.items(): pdf.cell(0, 10, f"{key}: {value}", ln=True)
RatioLines(rs) ==
    [i \in 1..Len(rs) |-> Cell(<<rs[i].name, ": ">> \o FormatValue(rs[i].value))]

\* the document that pdf.output writes
GeneratePdfReport(ins, rs, ana) ==
    <<Cell(Title), Ln(10), Cell(InsightsHeading)>>
      \o Bullets(ins)
      \o <<Ln(5), Cell(RatiosHeading)>>
      \o RatioLines(rs)
      \o <<Ln(5), Cell(AnalyticsHeading)>>
      \o Bullets(ana)

(***************************************************************************)
(* generate_visualizations(df): five charts, each reading a column by      *)
(* position; the first column that is missing ends the function in its     *)
(* except clause.                                                          *)
(***************************************************************************)
VisualizationError == "Error generating visualizations: single positional indexer is out-of-bounds"

GenerateVisualizations(df) ==
    IF NCols(df) <= RevenueCol THEN [charts |-> 0, error |-> VisualizationError]
    ELSE IF NCols(df) <= ProfitCol THEN [charts |-> 1, error |-> VisualizationError]
    ELSE [charts |-> 5, error |-> "none"]

(***************************************************************************)
(* main(): one script run per session.  Streamlit runs every session's     *)
(* script in a thread of the same process, so all runs share the working   *)
(* directory and with it the relative path financial_report.pdf.           *)
(***************************************************************************)
Sessions == {1, 2}

\* the code points of a text of n characters
TextSample(n, stride) == [i \in 1..n |-> 32 + ((i * stride) % 95)]

UploadTexts == { TextSample(3, 1) }

\* the tables an uploaded report may hold: a full one, one with four
\* columns only, one with a zero denominator
UploadTables ==
    { DataFrame(Prefix(HeaderSample, n), <<Prefix(row, n)>>) :
        n \in {4, 6}, row \in {<<"FY23", "1000", "400", "2000", "300", "audited">>} }
    \cup { DataFrame(Prefix(HeaderSample, 5), <<Prefix(row, 5)>>) :
        row \in {<<"FY22", "5", "5", "10", "2", NoneCell>>} }

\* what extract_tables_from_pdf may return: at most MaxTables tables
UploadDfs == {<<>>} \cup SeqsUpTo(UploadTables, MaxTables)

AddError(log, e) == IF e = "none" THEN log ELSE Append(log, e)

FailureKind(response) ==
    IF response.post = "raises" THEN "network"
    ELSE IF ~response.isJson THEN "not_json"
    ELSE "no_text_path"

NoFile == <<>>

PipelineInit(users) ==
    /\ connected = users
    /\ pc = [s \in Sessions |-> "idle"]
    /\ text = [s \in Sessions |-> <<>>]
    /\ dfs = [s \in Sessions |-> <<>>]
    /\ idx = [s \in Sessions |-> 0]
    /\ insights = [s \in Sessions |-> <<>>]
    /\ ratios = [s \in Sessions |-> <<>>]
    /\ bound = [s \in Sessions |-> FALSE]
    /\ analytics = [s \in Sessions |-> <<>>]
    /\ sent = [s \in Sessions |-> <<>>]
    /\ failures = [s \in Sessions |-> <<>>]
    /\ errors = [s \in Sessions |-> <<>>]
    /\ shown = [s \in Sessions |-> <<>>]
    /\ charts = [s \in Sessions |-> 0]
    /\ exception = [s \in Sessions |-> "none"]
    /\ download = [s \in Sessions |-> NoFile]
    /\ fs = NoFile

NoTable == DataFrame(<<>>, <<>>)

RatiosIdle == rdf = NoTable /\ rcalled = FALSE /\ rout = NoResult

NoArgs == [insights |-> <<>>, ratios |-> <<>>, analytics |-> <<>>]

ReportIdle == gin = NoArgs /\ gcalled = FALSE /\ gdoc = <<>>

PromptIdle == ptext = <<>> /\ pprompts = <<>>

\* lines 129-132: a file is uploaded and both extractions succeed
Upload(s) ==
    /\ s \in connected
    /\ pc[s] = "idle"
    /\ \E t \in UploadTexts, d \in UploadDfs :
          /\ text' = [text EXCEPT ![s] = t]
          /\ dfs' = [dfs EXCEPT ![s] = d]
    /\ pc' = [pc EXCEPT ![s] = "insights"]
    /\ UNCHANGED <<connected, idx, insights, ratios, bound, analytics, sent,
                   failures, errors, shown, charts, exception, download, fs>>
    /\ UNCHANGED <<ratioVars, reportVars, promptVars>>

\* lines 131-132: pdfplumber.open raises on a file it cannot read
UploadUnreadable(s) ==
    /\ s \in connected
    /\ pc[s] = "idle"
    /\ pc' = [pc EXCEPT ![s] = "aborted"]
    /\ exception' = [exception EXCEPT ![s] = "PDFSyntaxError"]
    /\ UNCHANGED <<connected, text, dfs, idx, insights, ratios, bound, analytics,
                   sent, failures, errors, shown, charts, download, fs>>
    /\ UNCHANGED <<ratioVars, reportVars, promptVars>>

\* lines 134-137: insights = generate_financial_insights(text)
GenerateFinancialInsights(s) ==
    /\ pc[s] = "insights"
    /\ \E response \in Responses :
          LET r == CallGeminiApi(response)
          IN  /\ sent' = [sent EXCEPT ![s] = Append(@, InsightsPrompt(text[s]))]
              /\ failures' = [failures EXCEPT ![s] =
                     IF IsFailure(response) THEN Append(@, FailureKind(response)) ELSE @]
              /\ IF r.raised # "none"
                 THEN /\ pc' = [pc EXCEPT ![s] = "aborted"]
                      /\ exception' = [exception EXCEPT ![s] = r.raised]
                      /\ UNCHANGED <<insights, errors>>
                 ELSE /\ pc' = [pc EXCEPT ![s] = "tables"]
                      /\ insights' = [insights EXCEPT ![s] = r.result]
                      /\ errors' = [errors EXCEPT ![s] = AddError(@, r.error)]
                      /\ UNCHANGED exception
    /\ UNCHANGED <<connected, text, dfs, idx, ratios, bound, analytics, shown,
                   charts, download, fs>>
    /\ UNCHANGED <<ratioVars, reportVars, promptVars>>

\* a variant of the loop body that keeps the first table's ratios
ProcessTableKeepFirst(s) ==
    /\ pc[s] = "tables"
    /\ idx[s] < Len(dfs[s])
    /\ LET df == dfs[s][idx[s] + 1]
           v  == GenerateVisualizations(df)
           r  == CalculateFinancialRatios(df)
       IN  /\ charts' = [charts EXCEPT ![s] = @ + v.charts]
           /\ ratios' = [ratios EXCEPT ![s] = IF bound[s] THEN @ ELSE r.ratios]
           /\ bound' = [bound EXCEPT ![s] = TRUE]
           /\ errors' = [errors EXCEPT ![s] = AddError(AddError(@, v.error), r.error)]
           /\ shown' = [shown EXCEPT ![s] = Append(@, r.ratios)]
    /\ idx' = [idx EXCEPT ![s] = @ + 1]
    /\ UNCHANGED <<connected, pc, text, dfs, insights, analytics, sent, failures,
                   exception, download, fs>>
    /\ UNCHANGED <<ratioVars, reportVars, promptVars>>

\* lines 140-145: one iteration of the loop over dfs
ProcessTable(s) ==
    /\ pc[s] = "tables"
    /\ idx[s] < Len(dfs[s])
    /\ LET df == dfs[s][idx[s] + 1]
           v  == GenerateVisualizations(df)
           r  == CalculateFinancialRatios(df)
       IN  /\ charts' = [charts EXCEPT ![s] = @ + v.charts]
           /\ ratios' = [ratios EXCEPT ![s] = r.ratios]
           /\ bound' = [bound EXCEPT ![s] = TRUE]
           /\ errors' = [errors EXCEPT ![s] = AddError(AddError(@, v.error), r.error)]
           /\ shown' = [shown EXCEPT ![s] = Append(@, r.ratios)]
    /\ idx' = [idx EXCEPT ![s] = @ + 1]
    /\ UNCHANGED <<connected, pc, text, dfs, insights, analytics, sent, failures,
                   exception, download, fs>>
    /\ UNCHANGED <<ratioVars, reportVars, promptVars>>

\* lines 147-150: the loop is over; analytics = generate_analytics(text)
GenerateAnalytics(s) ==
    /\ pc[s] = "tables"
    /\ idx[s] = Len(dfs[s])
    /\ \E response \in Responses :
          LET r == CallGeminiApi(response)
          IN  /\ sent' = [sent EXCEPT ![s] = Append(@, AnalyticsPrompt(text[s]))]
              /\ failures' = [failures EXCEPT ![s] =
                     IF IsFailure(response) THEN Append(@, FailureKind(response)) ELSE @]
              /\ IF r.raised # "none"
                 THEN /\ pc' = [pc EXCEPT ![s] = "aborted"]
                      /\ exception' = [exception EXCEPT ![s] = r.raised]
                      /\ UNCHANGED <<analytics, errors>>
                 ELSE /\ pc' = [pc EXCEPT ![s] = "report"]
                      /\ analytics' = [analytics EXCEPT ![s] = r.result]
                      /\ errors' = [errors EXCEPT ![s] = AddError(@, r.error)]
                      /\ UNCHANGED exception
    /\ UNCHANGED <<connected, text, dfs, idx, insights, ratios, bound, shown,
                   charts, download, fs>>
    /\ UNCHANGED <<ratioVars, reportVars, promptVars>>

\* line 153: pdf_file = generate_pdf_report(insights, ratios, analytics).
\* Reading the local name ratios when no loop iteration has assigned it
\* raises UnboundLocalError; otherwise the report is written to the
\* relative path financial_report.pdf.
WriteReport(s) ==
    /\ pc[s] = "report"
    /\ IF ~bound[s]
       THEN /\ pc' = [pc EXCEPT ![s] = "aborted"]
            /\ exception' = [exception EXCEPT ![s] = "UnboundLocalError"]
            /\ UNCHANGED fs
       ELSE /\ pc' = [pc EXCEPT ![s] = "download"]
            /\ fs' = GeneratePdfReport(insights[s], ratios[s], analytics[s])
            /\ UNCHANGED exception
    /\ UNCHANGED <<connected, text, dfs, idx, insights, ratios, bound, analytics,
                   sent, failures, errors, shown, charts, download>>
    /\ UNCHANGED <<ratioVars, reportVars, promptVars>>

\* line 154: st.download_button(data=open(pdf_file, "rb").read(), ...)
OfferDownload(s) ==
    /\ pc[s] = "download"
    /\ download' = [download EXCEPT ![s] = fs]
    /\ pc' = [pc EXCEPT ![s] = "done"]
    /\ UNCHANGED <<connected, text, dfs, idx, insights, ratios, bound, analytics,
                   sent, failures, errors, shown, charts, exception, fs>>
    /\ UNCHANGED <<ratioVars, reportVars, promptVars>>

Init == PipelineInit({1}) /\ RatiosIdle /\ ReportIdle /\ PromptIdle

InitConcurrent == PipelineInit(Sessions) /\ RatiosIdle /\ ReportIdle /\ PromptIdle

Next ==
    \E s \in Sessions :
        \/ Upload(s)
        \/ UploadUnreadable(s)
        \/ GenerateFinancialInsights(s)
        \/ ProcessTable(s)
        \/ GenerateAnalytics(s)
        \/ WriteReport(s)
        \/ OfferDownload(s)

\* one session
Spec == Init /\ [][Next]_vars

\* every session of Sessions connected
SpecConcurrent == InitConcurrent /\ [][Next]_vars

(***************************************************************************)
(* calculate_financial_ratios on its own: any table of Tables is given.    *)
(***************************************************************************)
InitRatios ==
    /\ PipelineInit({}) /\ ReportIdle /\ PromptIdle
    /\ rdf \in Tables
    /\ rcalled = FALSE
    /\ rout = NoResult

CallCalculate ==
    /\ ~rcalled
    /\ rcalled' = TRUE
    /\ rout' = CalculateFinancialRatios(rdf)
    /\ UNCHANGED <<rdf, pipelineVars, reportVars, promptVars>>

NextRatios == CallCalculate

SpecRatios == InitRatios /\ [][NextRatios]_vars

(***************************************************************************)
(* generate_pdf_report on its own: any strings over ReportChars of at most *)
(* MaxLineChars characters, any ratio set of RatioSetSamples.              *)
(***************************************************************************)
ReportChars == {"a", "b", NL}

ReportStrings == {<<>>} \cup SeqsUpTo(ReportChars, MaxLineChars)

RatioSetSamples ==
    { <<>> } \cup
    { CalculateFinancialRatios(DataFrame(Prefix(HeaderSample, 5), <<Prefix(row, 5)>>)).ratios :
        row \in { <<"FY23", "1000", "400", "2000", "300", "audited">>,
                  <<"Q3", "7", "3", "-3", "-1", "7">> } }

InitReport ==
    /\ PipelineInit({}) /\ RatiosIdle /\ PromptIdle
    /\ gin \in [insights : ReportStrings, ratios : RatioSetSamples, analytics : ReportStrings]
    /\ gcalled = FALSE
    /\ gdoc = <<>>

CallGenerateReport ==
    /\ ~gcalled
    /\ gcalled' = TRUE
    /\ gdoc' = GeneratePdfReport(gin.insights, gin.ratios, gin.analytics)
    /\ UNCHANGED <<gin, pipelineVars, ratioVars, promptVars>>

NextReport == CallGenerateReport

SpecReport == InitReport /\ [][NextReport]_vars

(***************************************************************************)
(* The prompt builders on their own: texts whose length is near 0 or near  *)
(* the budget of TruncLimit characters.                                    *)
(***************************************************************************)
PromptLengths == (0..Margin) \cup ((TruncLimit - Margin)..(TruncLimit + Margin))

PromptTexts == { TextSample(n, stride) : n \in PromptLengths, stride \in {1, 2, 3, 7} }

InitPrompt ==
    /\ PipelineInit({}) /\ RatiosIdle /\ ReportIdle
    /\ ptext \in PromptTexts
    /\ pprompts = <<>>

Built(fn) == \E i \in 1..Len(pprompts) : pprompts[i].fn = fn

BuildInsightsPrompt ==
    /\ ~Built("generate_financial_insights")
    /\ pprompts' = Append(pprompts, [fn |-> "generate_financial_insights",
                                     prompt |-> InsightsPrompt(ptext)])
    /\ UNCHANGED <<ptext, pipelineVars, ratioVars, reportVars>>

BuildAnalyticsPrompt ==
    /\ ~Built("generate_analytics")
    /\ pprompts' = Append(pprompts, [fn |-> "generate_analytics",
                                     prompt |-> AnalyticsPrompt(ptext)])
    /\ UNCHANGED <<ptext, pipelineVars, ratioVars, reportVars>>

NextPrompt == BuildInsightsPrompt \/ BuildAnalyticsPrompt

SpecPrompt == InitPrompt /\ [][NextPrompt]_vars

(***************************************************************************)
(* Properties.                                                             *)
(***************************************************************************)
RECURSIVE ParsedSumTo(_, _, _)
\* the sum over the first n data rows of the cells of column col (counted
\* from 0) that are numerals, the others counting for nothing
ParsedSumTo(df, col, n) ==
    IF n = 0 THEN 0
    ELSE ParsedSumTo(df, col, n - 1)
           + (IF df.rows[n][col + 1] \in DOMAIN NumeralValue
              THEN NumeralValue[df.rows[n][col + 1]] ELSE 0)

ParsedSum(df, col) == ParsedSumTo(df, col, Len(df.rows))

\* h/100 is within half a hundredth of n/d
NearestHundredth(h, n, d) == 2 * Abs(h * d - 100 * n) <= Abs(d)

Entry(name) == { i \in 1..Len(rout.ratios) : rout.ratios[i].name = name }

ExampleTable ==
    DataFrame(Prefix(HeaderSample, 5), << <<"FY23", "1000", "400", "2000", "300">> >>)

RemoteFailed(s) == failures[s] # <<>>

\* C1: an upload whose extraction succeeds with zero tables, and whose two
\* model calls have both returned, is never aborted: the report is assembled
\* and the download offered.
C1_ZeroTablesStillCompletes ==
    \A s \in Sessions :
        (dfs[s] = <<>> /\ Len(sent[s]) = 2 /\ exception[s] # "ConnectionError")
            => pc[s] # "aborted"

\* C2: whatever the kind of remote failure on either model call, an error
\* message is shown for it and the run is not aborted (stated for uploads
\* with at least one table, whose ratios are there to proceed with).
C2_RemoteFailureNeverAborts ==
    \A s \in Sessions :
        (RemoteFailed(s) /\ dfs[s] # <<>>)
            => /\ pc[s] # "aborted"
               /\ \E i \in 1..Len(errors[s]) : errors[s][i] \in {ApiError, ParseError}

\* C3: the bytes a session offers for download are the report assembled from
\* that session's own insights, ratios and analytics.
C3_DownloadIsOwnReport ==
    \A s \in Sessions :
        pc[s] = "done"
            => download[s] = GeneratePdfReport(insights[s], ratios[s], analytics[s])

\* C4: on a table of at least 5 columns, a ratio whose denominator is zero
\* is never reported as inf, -inf or nan: Debt-to-Equity when the summed
\* assets equal the summed liabilities, Profit Margin when the summed
\* revenue is 0.
C4_ZeroDenominatorUnavailable ==
    (rcalled /\ NCols(rdf) > ProfitCol)
        => /\ ParsedSum(rdf, AssetsCol) = ParsedSum(rdf, LiabilitiesCol)
                => \A i \in Entry(DebtToEquity) : rout.ratios[i].value.k = "fin"
           /\ ParsedSum(rdf, RevenueCol) = 0
                => \A i \in Entry(ProfitMargin) : rout.ratios[i].value.k = "fin"

\* C5: on a table of at least 5 columns whose three denominators are not
\* zero, exactly three entries are returned, Debt-to-Equity, Profit Margin,
\* Return on Assets in this order, each within half a hundredth of
\* L/(A-L), 100*P/R and 100*P/A; 1000, 400, 2000, 300 gives 0.67, 15.00, 30.00.
C5_ThreeRatiosRounded ==
    LET A == ParsedSum(rdf, AssetsCol)
        L == ParsedSum(rdf, LiabilitiesCol)
        R == ParsedSum(rdf, RevenueCol)
        P == ParsedSum(rdf, ProfitCol)
        q == rout.ratios
    IN  (rcalled /\ NCols(rdf) > ProfitCol /\ A # L /\ R # 0 /\ A # 0)
            => /\ Len(q) = 3
               /\ <<q[1].name, q[2].name, q[3].name>>
                      = <<DebtToEquity, ProfitMargin, ReturnOnAssets>>
               /\ \A i \in 1..3 : q[i].value.k = "fin"
               /\ NearestHundredth(q[1].value.h, L, A - L)
               /\ NearestHundredth(q[2].value.h, 100 * P, R)
               /\ NearestHundredth(q[3].value.h, 100 * P, A)
               /\ rdf = ExampleTable
                      => <<q[1].value.h, q[2].value.h, q[3].value.h>> = <<67, 1500, 3000>>

C5_Witness ==
    /\ rcalled
    /\ rdf = ExampleTable
    /\ Len(rout.ratios) = 3
    /\ rout.ratios[1].value.h = 67

\* the columns a ratio reads and its denominator
RatioColumns(name) ==
    IF name = DebtToEquity THEN {AssetsCol, LiabilitiesCol}
    ELSE IF name = ProfitMargin THEN {RevenueCol, ProfitCol}
    ELSE {AssetsCol, ProfitCol}

Denominator(name, df) ==
    IF name = DebtToEquity
    THEN ParsedSum(df, AssetsCol) - ParsedSum(df, LiabilitiesCol)
    ELSE IF name = ProfitMargin THEN ParsedSum(df, RevenueCol)
    ELSE ParsedSum(df, AssetsCol)

Computable(name, df) ==
    /\ \A c \in RatioColumns(name) : c < NCols(df)
    /\ Denominator(name, df) # 0

\* C6: a failure is confined to the ratio it affects: a ratio that cannot be
\* computed has no value and a failure is reported, and every ratio whose
\* own columns are present, with a denominator that is not zero, is in the
\* result with a finite value.
C6_FailureConfined ==
    rcalled =>
        \A name \in {DebtToEquity, ProfitMargin, ReturnOnAssets} :
            IF Computable(name, rdf)
            THEN \E i \in Entry(name) : rout.ratios[i].value.k = "fin"
            ELSE /\ rout.error # "none"
                 /\ \A i \in Entry(name) : rout.ratios[i].value.k # "fin"

\* C7: on a table of at least 5 columns, each of the four sums is the sum of
\* the cells of its column that parse as numbers, a cell that does not parse
\* adding nothing, and the computation is not aborted: no error is shown and
\* the three ratios are returned.
C7_UnparseableCellsAddNothing ==
    (rcalled /\ NCols(rdf) > ProfitCol)
        => /\ rout.error = "none"
           /\ Len(rout.ratios) = 3
           /\ rout.locals.total_assets = ParsedSum(rdf, AssetsCol)
           /\ rout.locals.total_liabilities = ParsedSum(rdf, LiabilitiesCol)
           /\ rout.locals.revenue = ParsedSum(rdf, RevenueCol)
           /\ rout.locals.profit = ParsedSum(rdf, ProfitCol)

\* a column of a 5-column table holds a cell that does not parse and a cell
\* that parses to a number other than 0, and the call has been made
C7_Witness ==
    /\ rcalled
    /\ NCols(rdf) > ProfitCol
    /\ \E i, j \in 1..Len(rdf.rows) :
          /\ rdf.rows[i][AssetsCol + 1] \notin DOMAIN NumeralValue
          /\ rdf.rows[j][AssetsCol + 1] \in DOMAIN NumeralValue
          /\ rout.locals.total_assets = NumeralValue[rdf.rows[j][AssetsCol + 1]]
          /\ rout.locals.total_assets # 0
    /\ rout.error = "none"

CountNL(str) == Cardinality({i \in 1..Len(str) : str[i] = NL})

RECURSIVE JoinLines(_)
\* the pieces joined by line breaks
JoinLines(pieces) ==
    IF Len(pieces) = 1 THEN pieces[1]
    ELSE pieces[1] \o <<NL>> \o JoinLines(Tail(pieces))

\* cells from..from+n-1 of the document are n bullets, none holding a line
\* break, whose lines joined by line breaks give str back
BulletsOf(doc, from, n, str) ==
    /\ \A i \in from..(from + n - 1) :
          /\ doc[i].op = "cell"
          /\ doc[i].txt[1] = "- "
          /\ \A k \in 2..Len(doc[i].txt) : doc[i].txt[k] # NL
    /\ JoinLines([i \in 1..n |-> Tail(doc[from + i - 1].txt)]) = str

\* C8: the report is the title, the insights heading and one bullet per line
\* of the insights string, the ratios heading and one line "name: value" per
\* entry in insertion order (none for an empty set), the analytics heading
\* and one bullet per line of the analytics string, in this order.
C8_ReportOrder ==
    gcalled =>
        LET nI == 1 + CountNL(gin.insights)
            nR == Len(gin.ratios)
            nA == 1 + CountNL(gin.analytics)
            rH == 3 + nI + 2
            aH == rH + nR + 2
            cells == { i \in 1..Len(gdoc) : gdoc[i].op = "cell" }
        IN  /\ Len(gdoc) = aH + nA
            /\ gdoc[1] = Cell(Title)
            /\ gdoc[3] = Cell(InsightsHeading)
            /\ BulletsOf(gdoc, 4, nI, gin.insights)
            /\ gdoc[rH] = Cell(RatiosHeading)
            /\ \A i \in 1..nR :
                  gdoc[rH + i].txt
                     = <<gin.ratios[i].name, ": ">> \o FormatValue(gin.ratios[i].value)
            /\ gdoc[aH] = Cell(AnalyticsHeading)
            /\ BulletsOf(gdoc, aH + 1, nA, gin.analytics)
            /\ cells = ({1} \cup (3..(3 + nI)) \cup (rH..(rH + nR)) \cup (aH..(aH + nA)))

\* a report of several insight lines, one of them empty, three ratios and
\* several analytics lines
C8_Witness ==
    /\ gcalled
    /\ gin.insights = <<"a", NL, NL>>
    /\ Len(gin.ratios) = 3
    /\ CountNL(gin.analytics) >= 1
    /\ Len(gdoc) = 14 + CountNL(gin.analytics)

\* C9: each prompt is its fixed instruction followed by exactly the first
\* min(len(text), 4000) characters of the text.
C9_PromptTruncated ==
    \A i \in 1..Len(pprompts) :
        LET p == pprompts[i].prompt
            m == Min(Len(ptext), TruncLimit)
        IN  /\ p.instruction = (IF pprompts[i].fn = "generate_financial_insights"
                                THEN InsightsInstruction ELSE AnalyticsInstruction)
            /\ Len(p.body) = m
            /\ \A k \in 1..m : p.body[k] = ptext[k]

\* both prompts have been built from a text longer than the budget
C9_Witness ==
    /\ Len(pprompts) = 2
    /\ Len(ptext) > TruncLimit
    /\ Len(pprompts[1].prompt.body) = TruncLimit

\* C10: with two or more tables, the ratio set given to the report assembler
\* is the result of calculate_financial_ratios on the last table (empty if
\* that computation failed); the sets of all tables are shown, and the
\* report written holds the last one only.
C10_LastTableWins ==
    \A s \in Sessions :
        (Len(dfs[s]) >= 2 /\ pc[s] \in {"report", "download", "done"})
            => LET last == CalculateFinancialRatios(dfs[s][Len(dfs[s])]).ratios
               IN  /\ bound[s]
                   /\ ratios[s] = last
                   /\ Len(shown[s]) = Len(dfs[s])
                   /\ \A i \in 1..Len(dfs[s]) :
                         shown[s][i] = CalculateFinancialRatios(dfs[s][i]).ratios
                   /\ pc[s] = "download"
                         => fs = GeneratePdfReport(insights[s], last, analytics[s])

\* a finished run of two tables, the first with three ratios, the last one
\* failing: the ratio set that reached the report is empty
C10_Witness ==
    /\ pc[1] = "done"
    /\ Len(dfs[1]) = 2
    /\ Len(shown[1][1]) = 3
    /\ ratios[1] = <<>>
    /\ download[1] = GeneratePdfReport(insights[1], <<>>, analytics[1])

=============================================================================
